---- MODULE Spec2Model ----
(***************************************************************************)
(* State-machine model of the test execution orchestrator                  *)
(* (server/src/services/test_execution_orchestrator.py), the part of the   *)
(* session pool it drives (server/src/selenium/webdriver_manager.py) and   *)
(* the notification events it emits (server/src/api/websockets.py).        *)
(*                                                                         *)
(* Scheduling: everything runs on one asyncio event loop.  A task runs     *)
(* without interruption until it awaits something that really suspends.    *)
(* The pool's methods are `async def` around blocking driver calls and     *)
(* contain no suspending await, so `await webdriver_manager.xxx()` is one  *)
(* atomic segment.  The suspension points of the worker are: the queue     *)
(* get, asyncio.sleep of a Wait step, and every notify_* call (a socket    *)
(* send).  Each worker action below is the code between two consecutive    *)
(* suspension points; the worker's wpc names the await it is parked at.    *)
(***************************************************************************)
EXTENDS Integers, Sequences, FiniteSets, TLC

\* ------------------------------------------------------------------ bounds
MaxExec == 2        \* queue_test_execution calls that succeed
MaxSteps == 2       \* longest step list stored for a test case
MaxCancels == 2     \* cancel_execution calls made by request handlers
MaxStops == 1       \* stop() calls
MaxOrder == 2       \* largest order_index of a stored step (StepSpec)
MaxCreates == 5     \* create_session calls made by request handlers
MaxPoolCalls == 2   \* navigate / interact calls made by request handlers
MaxClients == 2     \* distinct client_id values
MaxUsers == 2       \* distinct user_id values
MaxConnects == 3    \* websocket connections accepted
MaxSends == 2       \* send_to_user / broadcast calls
MaxInputCalls == 2  \* calls with an input error

ExecIds == 1..MaxExec
NoExec == 0
NoSession == 0
\* session ids: the session of execution e is e, the sessions created by
\* request handlers are numbered after them
SessionIds == 1..(MaxExec + MaxCreates)

\* ------------------------------------------------------- enums of the code
QUEUED == "queued"
RUNNING == "running"
COMPLETED == "completed"
FAILED == "failed"
CANCELLED == "cancelled"
ExecutionStatus == {QUEUED, RUNNING, COMPLETED, FAILED, CANCELLED}
TerminalStatus == {COMPLETED, FAILED, CANCELLED}

NAVIGATE == "navigate"
CLICK == "click"
INPUT == "input"
WAIT == "wait"
VERIFY == "verify"
SCREENSHOT == "screenshot"
StepType == {NAVIGATE, CLICK, INPUT, WAIT, VERIFY, SCREENSHOT}

\* error_message values
NoMessage == "none"
CancelMessage == "Execution cancelled by user"
SessionNotFound == "Session not found"
CreateFailed == "Failed to create WebDriver session"

\* ------------------------------------------------------ stored test cases
\* A stored test case is the list of its step rows as the relationship loads
\* them (order_by order_index); a row carries its order_index and step_type.
\* The test cases of Spec: the one without steps (it gets the fallback plan
\* navigate, screenshot) and, for every length up to MaxSteps, the list that
\* alternates wait steps with driver steps, with order_index 1, 2, ...
Alternating(first, second, n) ==
  [i \in 1..n |-> IF i % 2 = 1 THEN first ELSE second]

Row(n, t) == [order_index |-> n, step_type |-> t]

Indexed(types) == [i \in 1..Len(types) |-> Row(i, types[i])]

TestCases ==
  {<<>>} \cup {Indexed(Alternating(WAIT, NAVIGATE, n)) : n \in 1..MaxSteps}

\* The test cases of StepSpec: every list of 1..MaxSteps rows whose
\* order_index values are in 0..MaxOrder (the schema asks for >= 0 and
\* nothing makes them distinct or contiguous), in the order the relationship
\* loads them, with step types the stored enum has: two the orchestrator
\* knows and one ("type") it does not.
DB_TYPE == "type"
StoredTypes == {WAIT, NAVIGATE, DB_TYPE}
StoredRows == {Row(n, t) : n \in 0..MaxOrder, t \in StoredTypes}
StoredCases ==
  {tc \in UNION {[1..n -> StoredRows] : n \in 1..MaxSteps} :
     \A i \in 1..(Len(tc) - 1) : tc[i].order_index <= tc[i + 1].order_index}

TestStep(n, t) == [step_number |-> n, step_type |-> t]

\* `step_type_mapping.get(db_step.step_type, StepType.SCREENSHOT)`
step_type_mapping(t) == IF t \in StepType THEN t ELSE SCREENSHOT

\* Variant of sorted: descending order_index.
RECURSIVE sorted_reverse(_)
sorted_reverse(rows) ==
  IF rows = <<>> THEN <<>>
  ELSE LET m == CHOOSE i \in 1..Len(rows) :
                  \A j \in 1..Len(rows) :
                    rows[j].order_index <= rows[i].order_index
       IN  <<rows[m]>>
             \o sorted_reverse(SubSeq(rows, 1, m - 1)
                                 \o SubSeq(rows, m + 1, Len(rows)))

\* `sorted(test_case.steps, key=lambda s: s.order_index)`: a stable sort,
\* computed by insertion.
RECURSIVE InsertRow(_, _)
InsertRow(r, rows) ==
  IF rows = <<>> THEN <<r>>
  ELSE IF r.order_index < Head(rows).order_index THEN <<r>> \o rows
  ELSE <<Head(rows)>> \o InsertRow(r, Tail(rows))

RECURSIVE sorted(_)
sorted(rows) ==
  IF rows = <<>> THEN <<>>
  ELSE InsertRow(rows[Len(rows)], sorted(SubSeq(rows, 1, Len(rows) - 1)))

\* Variant of _parse_test_steps without the default plan.
_parse_test_steps_bare(tc) ==
  LET rows == sorted(tc) IN
  [i \in 1..Len(rows) |->
     TestStep(rows[i].order_index, step_type_mapping(rows[i].step_type))]

_parse_test_steps(tc) ==
  IF tc = <<>>
  THEN <<TestStep(1, NAVIGATE), TestStep(2, SCREENSHOT)>>
  ELSE LET rows == sorted(tc) IN
       [i \in 1..Len(rows) |->
          TestStep(rows[i].order_index, step_type_mapping(rows[i].step_type))]

\* -------------------------------------------------------------- variables
VARIABLES
  is_running,          \* orchestrator.is_running
  worker,              \* worker_task: "none" | "alive" | "done"
  wcancel,             \* worker_task.cancel() requested, not yet delivered
  wpc,                 \* await the worker is parked at
  wcur,                \* execution_id the worker is inside _execute_test for
  widx,                \* step_index of the per-step loop (0-based)
  wsuccess,            \* local `success` of the per-step loop
  execution_queue,     \* asyncio.Queue of execution ids
  active_executions,   \* keys of the active_executions dict
  created,             \* number of ExecutionContext objects created
  status,              \* context.status
  session_id,          \* context.session_id
  steps,               \* context.steps
  current_step,        \* context.current_step
  error_message,       \* context.error_message
  sessions,            \* keys of webdriver_manager.sessions
  screenshot_count,    \* per session: session.screenshot_count
  expired,             \* sessions whose last_used is older than the timeout
  screenshots,         \* context.screenshots
  analysis_tasks,      \* spawned vision-analysis tasks that have not ended
  ai_analyses,         \* context.ai_analyses: screenshot paths analysed
  final_ai_analysis,   \* context.final_ai_analysis
  ext_created,         \* create_session calls made by request handlers
  pool_calls,          \* navigate / interact calls made by request handlers
  pool_result,         \* what the last pool call of a request handler returned
  active_connections,  \* manager.active_connections: client_id -> websocket
  connection_metadata, \* manager.connection_metadata: client_id -> user_id
  user_connections,    \* manager.user_connections: user_id -> set of client_id
  endpoints,           \* running websocket_endpoint handlers: socket -> client_id
  registered,          \* per websocket: the user_id it connected with
  delivered,           \* <<websocket, message>> for every send_text that returned
  fan,                 \* the send_to_user / broadcast call in flight
  sent,                \* send_to_user / broadcast calls started
  accepted,            \* websocket connections that reached the endpoint
  input_calls,         \* calls with an input error made by request handlers
  last_call,           \* the last such call: what was called, what came back
  notifications,       \* per execution: events passed to notify_*
  executed,            \* per execution: step numbers handed to _execute_step
  stored,              \* per execution: calls of _store_execution_results
  result_analyses,     \* per execution: spawned _analyze_execution_result_with_ai
  cleanup_tasks,       \* spawned _cleanup_execution tasks not yet run
  cancel_log,          \* per execution: outcome of each cancel_execution call,
                       \* in call order: "true" | "false" | "raise" | "pending"
  api_cancels,         \* cancel_execution calls made by request handlers
  cancel_parked,       \* cancel_execution calls parked in notify: <<id, call#>>
  stop_pc,             \* stop(): "idle" | "await_worker" | "loop" | "notify"
  stop_list,           \* stop(): ids still to cancel
  stop_call,           \* stop(): call number of its parked cancel_execution
  stops                \* number of stop() calls so far

vars == <<is_running, worker, wcancel, wpc, wcur, widx, wsuccess,
          execution_queue, active_executions, created, status, session_id,
          steps, current_step, error_message, sessions, notifications,
          executed, stored, result_analyses, cleanup_tasks, cancel_log,
          api_cancels, cancel_parked, stop_pc, stop_list, stop_call, stops,
          screenshot_count, expired, screenshots, analysis_tasks, ai_analyses,
          final_ai_analysis, ext_created, pool_calls, pool_result,
          active_connections, connection_metadata, user_connections,
          endpoints, registered, delivered, fan, sent, accepted,
          input_calls, last_call>>

workerVars == <<worker, wcancel, wpc, wcur, widx, wsuccess>>
ctxVars == <<status, session_id, steps, current_step, error_message>>
stopVars == <<stop_pc, stop_list, stop_call, stops>>
cancelVars == <<cancel_log, api_cancels, cancel_parked>>
poolVars == <<sessions, screenshot_count, expired>>
shotVars == <<screenshot_count, expired, screenshots, analysis_tasks>>
visionVars == <<ai_analyses, final_ai_analysis>>
apiVars == <<ext_created, pool_calls, pool_result>>
wsVars == <<active_connections, connection_metadata, user_connections,
            endpoints, registered, delivered, fan, sent, accepted>>
inputVars == <<input_calls, last_call>>
orchVars == <<inputVars, is_running, workerVars, execution_queue, active_executions,
              created, ctxVars, notifications, executed, stored,
              result_analyses, cleanup_tasks, cancelVars, stopVars,
              screenshots, analysis_tasks, visionVars>>

\* websocket layer: client ids, user ids, websocket objects
ClientIds == 1..MaxClients
UserIds == 1..MaxUsers
Sockets == 1..MaxConnects
NoSocket == 0
NoUser == 0
Absent == -1
NoClient == 0
NoResult == [op |-> "none", ok |-> FALSE, message |-> NoMessage]
NoCall == [op |-> "none", id |-> 0, result |-> "none"]
NoFan == [kind |-> "none", user |-> NoUser, msg |-> 0, targets |-> {},
          todo |-> <<>>, client |-> NoClient, sending |-> NoSocket,
          errors |-> {}, failed |-> {}, done |-> TRUE]

NoPath == <<>>
NoAnalysis == "none"

Init ==
  /\ is_running = FALSE
  /\ worker = "none"
  /\ wcancel = FALSE
  /\ wpc = "idle"
  /\ wcur = NoExec
  /\ widx = 0
  /\ wsuccess = TRUE
  /\ execution_queue = <<>>
  /\ active_executions = {}
  /\ created = 0
  /\ status = [e \in ExecIds |-> QUEUED]
  /\ session_id = [e \in ExecIds |-> NoSession]
  /\ steps = [e \in ExecIds |-> <<>>]
  /\ current_step = [e \in ExecIds |-> 0]
  /\ error_message = [e \in ExecIds |-> NoMessage]
  /\ sessions = {}
  /\ notifications = [e \in ExecIds |-> <<>>]
  /\ executed = [e \in ExecIds |-> <<>>]
  /\ stored = [e \in ExecIds |-> 0]
  /\ result_analyses = [e \in ExecIds |-> 0]
  /\ cleanup_tasks = {}
  /\ cancel_log = [e \in ExecIds |-> <<>>]
  /\ cancel_parked = {}
  /\ api_cancels = 0
  /\ stop_call = 0
  /\ stop_pc = "idle"
  /\ stop_list = <<>>
  /\ stops = 0
  /\ screenshot_count = [sid \in SessionIds |-> 0]
  /\ expired = {}
  /\ screenshots = [e \in ExecIds |-> <<>>]
  /\ analysis_tasks = {}
  /\ ai_analyses = [e \in ExecIds |-> <<>>]
  /\ final_ai_analysis = [e \in ExecIds |-> NoAnalysis]
  /\ ext_created = 0
  /\ pool_calls = 0
  /\ pool_result = NoResult
  /\ active_connections = [c \in ClientIds |-> NoSocket]
  /\ connection_metadata = [c \in ClientIds |-> Absent]
  /\ user_connections = [u \in UserIds |-> {}]
  /\ endpoints = [w \in Sockets |-> 0]
  /\ registered = [w \in Sockets |-> NoUser]
  /\ delivered = {}
  /\ fan = NoFan
  /\ sent = 0
  /\ accepted = 0
  /\ input_calls = 0
  /\ last_call = NoCall

\* ------------------------------------------------------------ session pool
\* Variant of close_session: the entry stays when driver.quit() raises.
close_session_kept(table, sid) == table

\* WebDriverManager.close_session: the session table after the call.  The
\* entry is removed whether or not driver.quit() raised.
close_session(table, sid) == table \ {sid}

\* A screenshot path names the session and the session's screenshot_count at
\* the time it was taken.
Path(sid, n) == <<sid, n>>

\* Outcomes of the remote driver inside a pool call.
NavOutcomes == {"ok", "timeout", "error"}
InteractOutcomes == {"ok", "timeout", "not_interactable", "rejected", "error"}

\* The `message` of a failed NavigationResult / ElementInteractionResult.
PoolMessage(outcome) ==
  CASE outcome = "timeout" -> "timeout"
    [] outcome = "not_interactable" -> "Element found but not interactable"
    [] outcome = "rejected" -> "Text input is required for 'input' action"
    [] OTHER -> "driver error"
FailureMessages ==
  {PoolMessage(o) : o \in (NavOutcomes \cup InteractOutcomes) \ {"ok"}}

\* WebDriverManager._take_screenshot: None for an absent session; otherwise
\* screenshot_count is incremented and the path is returned unless
\* save_screenshot raised (`saved` false).
_take_screenshot(table, counts, sid, saved) ==
  IF sid \notin table
  THEN [path |-> NoPath, counts |-> counts]
  ELSE [path |-> IF saved THEN Path(sid, counts[sid] + 1) ELSE NoPath,
        counts |-> [counts EXCEPT ![sid] = @ + 1]]

\* WebDriverManager.navigate_to_url: a structured result, never an
\* exception.  On success last_used is refreshed and a screenshot is taken;
\* the except handlers (timeout, driver error) take none.
navigate_to_url(table, counts, exp, sid, outcome, saved) ==
  IF sid \notin table
  THEN [success |-> FALSE, message |-> SessionNotFound,
        screenshot_path |-> NoPath, counts |-> counts, expired |-> exp]
  ELSE IF outcome = "ok"
  THEN LET shot == _take_screenshot(table, counts, sid, saved) IN
       [success |-> TRUE, message |-> "ok",
        screenshot_path |-> shot.path, counts |-> shot.counts,
        expired |-> exp \ {sid}]
  ELSE [success |-> FALSE, message |-> PoolMessage(outcome),
        screenshot_path |-> NoPath, counts |-> counts, expired |-> exp]

\* WebDriverManager.find_element_and_interact.  "rejected" is one of its
\* early returns (invalid selector type, missing text, unsupported action):
\* no screenshot.  On success last_used is refreshed and a screenshot is
\* taken; every except handler takes a screenshot too.
find_element_and_interact(table, counts, exp, sid, outcome, saved) ==
  IF sid \notin table
  THEN [success |-> FALSE, message |-> SessionNotFound,
        screenshot_path |-> NoPath, counts |-> counts, expired |-> exp]
  ELSE IF outcome = "rejected"
  THEN [success |-> FALSE, message |-> PoolMessage(outcome),
        screenshot_path |-> NoPath, counts |-> counts, expired |-> exp]
  ELSE LET shot == _take_screenshot(table, counts, sid, saved) IN
       [success |-> outcome = "ok",
        message |-> IF outcome = "ok" THEN "ok" ELSE PoolMessage(outcome),
        screenshot_path |-> shot.path, counts |-> shot.counts,
        expired |-> IF outcome = "ok" THEN exp \ {sid} ELSE exp]

\* WebDriverManager._cleanup_expired_sessions: close_session for every
\* session whose last_used is older than session_timeout.
_cleanup_expired_sessions(table, exp) == table \ exp

max_sessions == 5
MaxReached == "Maximum number of WebDriver sessions reached"

\* Variant of create_session: the capacity test is `>` instead of `>=`.
create_session_above(table, exp, sid, driver_ok) ==
  LET full == Cardinality(table) > max_sessions
      reaped == IF full THEN table \ exp ELSE table
      left == IF full THEN {} ELSE exp
  IN  IF Cardinality(reaped) > max_sessions
      THEN [raised |-> MaxReached, sessions |-> reaped, expired |-> left]
      ELSE IF driver_ok
      THEN [raised |-> NoMessage, sessions |-> reaped \cup {sid},
            expired |-> left]
      ELSE [raised |-> CreateFailed, sessions |-> reaped, expired |-> left]

\* WebDriverManager.create_session with the fresh id `sid`: at capacity the
\* expired sessions are reaped first, and the call raises when the table is
\* still full; otherwise the driver is constructed (`driver_ok`) and the
\* session added, or the constructor's exception is re-raised.
create_session(table, exp, sid, driver_ok) ==
  LET full == Cardinality(table) >= max_sessions
      reaped == IF full THEN _cleanup_expired_sessions(table, exp) ELSE table
      left == IF full THEN {} ELSE exp
  IN  IF Cardinality(reaped) >= max_sessions
      THEN [raised |-> MaxReached, sessions |-> reaped, expired |-> left]
      ELSE IF driver_ok
      THEN [raised |-> NoMessage, sessions |-> reaped \cup {sid},
            expired |-> left]
      ELSE [raised |-> CreateFailed, sessions |-> reaped, expired |-> left]

\* ------------------------------------------------------------ notifications
Event(type, step, msg) == [type |-> type, step |-> step, msg |-> msg]
StartedEvent == Event("test_execution_started", 0, "")
ProgressEvent(k) == Event("test_execution_progress", k, "")
CompletedEvent == Event("test_execution_completed", 0, "")
ErrorEvent(msg) == Event("test_execution_error", 0, msg)
CancelNotice == "Test execution was cancelled"
StepFailedNotice(k) == "Step " \o ToString(k) \o " failed"

Emit(e, ev) == [notifications EXCEPT ![e] = Append(@, ev)]

\* ------------------------------------------------------------ orchestrator
\* Variant of get_execution_status: the context is found although its key
\* is gone.
get_execution_status_kept(e) ==
  [known |-> TRUE, status |-> status[e], current_step |-> current_step[e],
   total_steps |-> Len(steps[e]), error_message |-> error_message[e]]

\* get_execution_status: None for an id that is not a key of the dict.
get_execution_status(e) ==
  IF e \in active_executions
  THEN [known |-> TRUE, status |-> status[e], current_step |-> current_step[e],
        total_steps |-> Len(steps[e]), error_message |-> error_message[e]]
  ELSE [known |-> FALSE, status |-> "none", current_step |-> 0,
        total_steps |-> 0, error_message |-> NoMessage]

\* start()
Start ==
  /\ ~is_running
  /\ stop_pc = "idle"
  /\ is_running' = TRUE
  /\ worker' = "alive"
  /\ wcancel' = FALSE
  /\ wpc' = "idle"
  /\ wcur' = NoExec
  /\ widx' = 0
  /\ wsuccess' = TRUE
  /\ UNCHANGED <<execution_queue, active_executions, created, ctxVars,
                 sessions, notifications, executed, stored, result_analyses,
                 cleanup_tasks, cancelVars, stopVars, shotVars, visionVars>>
  /\ UNCHANGED <<apiVars, wsVars, inputVars>>

\* queue_test_execution for an existing test case tc
\* Variant of queue_put: the new id goes to the front of the queue.
queue_put_front(q, e) == <<e>> \o q

\* `await self.execution_queue.put(execution_id)` on an unbounded asyncio.Queue
queue_put(q, e) == Append(q, e)

QueueTestExecution(tc) ==
  /\ created < MaxExec
  /\ LET e == created + 1 IN
       /\ created' = e
       /\ steps' = [steps EXCEPT ![e] = _parse_test_steps(tc)]
       /\ active_executions' = active_executions \cup {e}
       /\ execution_queue' = queue_put(execution_queue, e)
  /\ UNCHANGED <<is_running, workerVars, status, session_id, current_step,
                 error_message, sessions, notifications, executed, stored,
                 result_analyses, cleanup_tasks, cancelVars, stopVars,
                 shotVars, visionVars>>
  /\ UNCHANGED <<apiVars, wsVars, inputVars>>

\* Variant of Finally that leaves the session in the pool.
FinallyLeak(e) ==
  /\ sessions' = sessions
  /\ expired' = expired
  /\ stored' = [stored EXCEPT ![e] = @ + 1]
  /\ cleanup_tasks' = cleanup_tasks \cup {e}

\* The finally block of _execute_test for execution e.
Finally(e) ==
  /\ sessions' = IF session_id[e] # NoSession
                 THEN close_session(sessions, session_id[e])
                 ELSE sessions
  /\ expired' = expired \ {session_id[e]}
  /\ stored' = [stored EXCEPT ![e] = @ + 1]
  /\ cleanup_tasks' = cleanup_tasks \cup {e}

\* Variant of BackToLoop: the worker task ends with the execution.
BackToLoopOnce ==
  /\ worker' = "done"
  /\ wpc' = "idle"
  /\ wcur' = NoExec
  /\ widx' = 0
  /\ wsuccess' = TRUE

\* _execute_test has returned to _execution_worker: the loop tests is_running.
BackToLoop ==
  /\ worker' = IF is_running THEN "alive" ELSE "done"
  /\ wpc' = "idle"
  /\ wcur' = NoExec
  /\ widx' = 0
  /\ wsuccess' = TRUE

\* Variant of CurrentStepAt: one past the 1-based number is stored.
CurrentStepPastEnd(i) == i + 2

\* Variant of CurrentStepAt: the 0-based index is stored.
CurrentStepAtIndex(i) == i

\* `context.current_step = step_index + 1`
CurrentStepAt(i) == i + 1

\* Variant of RecordedError: the pool's message is dropped.
RecordedErrorDropped(result) == NoMessage

\* `context.error_message = result.message` of _execute_step
RecordedError(result) == result.message

\* Outcomes of the driver for a step of type t: the orchestrator always
\* passes selector type "css" and a supported action, so the only early
\* return it can meet is the missing text of an input step.
StepOutcomes(t) ==
  CASE t = NAVIGATE -> NavOutcomes
    [] t = INPUT -> InteractOutcomes
    [] t \in {CLICK, VERIFY} -> InteractOutcomes \ {"rejected"}
    [] OTHER -> {"ok"}

\* The pool call of _execute_step for a step that is not a wait: its result
\* and the pool's screenshot_count and expired set after it.
PoolCall(e, step, outcome, saved) ==
  CASE step.step_type = NAVIGATE ->
         navigate_to_url(sessions, screenshot_count, expired, session_id[e],
                         outcome, saved)
    [] step.step_type = SCREENSHOT ->
         LET shot == _take_screenshot(sessions, screenshot_count,
                                      session_id[e], saved)
         IN  [success |-> TRUE, message |-> "ok",
              screenshot_path |-> shot.path, counts |-> shot.counts,
              expired |-> expired]
    [] OTHER ->
         find_element_and_interact(sessions, screenshot_count, expired,
                                   session_id[e], outcome, saved)

\* asyncio.create_task(self._analyze_screenshot_with_ai(context, path, ...))
ScreenshotTask(e, path) ==
  [kind |-> "screenshot", e |-> e, path |-> path, pc |-> "start",
   snapshot |-> NoAnalysis]

\* asyncio.create_task(self._analyze_execution_result_with_ai(context))
ResultTask(e) ==
  [kind |-> "result", e |-> e, path |-> NoPath, pc |-> "start",
   snapshot |-> NoAnalysis]

\* Variant of CancelObserved: the loop does not look at the status.
CancelObservedNever(e) == FALSE

\* `if context.status == ExecutionStatus.CANCELLED: return`
CancelObserved(e) == status[e] = CANCELLED

\* One pass of `for step_index, step in enumerate(context.steps)` up to the
\* next suspension point, for step_index i (0-based).
Iteration(e, i) ==
  LET step == steps[e][i + 1] IN
  /\ current_step' = [current_step EXCEPT ![e] = CurrentStepAt(i)]
  /\ IF CancelObserved(e)
     THEN /\ Finally(e)
          /\ BackToLoop
          /\ UNCHANGED <<executed, error_message, notifications,
                         screenshot_count, screenshots, analysis_tasks>>
     ELSE /\ executed' = [executed EXCEPT ![e] = Append(@, step.step_number)]
          /\ widx' = i
          /\ UNCHANGED <<worker, wcur, sessions, stored, cleanup_tasks>>
          /\ IF step.step_type = WAIT
             THEN /\ wpc' = "sleep"
                  /\ UNCHANGED <<wsuccess, error_message, notifications,
                                 shotVars>>
             ELSE \E outcome \in StepOutcomes(step.step_type),
                     saved \in BOOLEAN :
                    LET result == PoolCall(e, step, outcome, saved)
                        path == result.screenshot_path
                    IN
                    /\ screenshot_count' = result.counts
                    /\ expired' = result.expired
                    /\ screenshots' =
                         IF path # NoPath
                         THEN [screenshots EXCEPT ![e] = Append(@, path)]
                         ELSE screenshots
                    /\ analysis_tasks' =
                         IF path # NoPath
                         THEN analysis_tasks \cup {ScreenshotTask(e, path)}
                         ELSE analysis_tasks
                    /\ wpc' = "notify_progress"
                    /\ wsuccess' = result.success
                    /\ error_message' =
                         IF result.success THEN error_message
                         ELSE [error_message EXCEPT ![e] = RecordedError(result)]
                    /\ notifications' = Emit(e, ProgressEvent(i + 1))

\* Variant of StillActive: the worker runs whatever it dequeues.
StillActiveAlways(e) == TRUE

\* `if execution_id in self.active_executions` of _execution_worker
StillActive(e) == e \in active_executions

\* _execution_worker: take the next id from the queue; if it is still a key
\* of active_executions enter _execute_test and run to the first suspension.
WorkerDequeue ==
  /\ worker = "alive" /\ ~wcancel /\ wpc = "idle" /\ is_running
  /\ execution_queue # <<>>
  /\ LET e == Head(execution_queue) IN
       /\ execution_queue' = Tail(execution_queue)
       /\ IF ~StillActive(e)
          THEN UNCHANGED <<workerVars, ctxVars, sessions, expired,
                           notifications, result_analyses, analysis_tasks>>
          ELSE \E driver_ok \in BOOLEAN :
                 LET made == create_session(sessions, expired, e, driver_ok) IN
                 /\ wcur' = e
                 /\ sessions' = made.sessions
                 /\ expired' = made.expired
                 /\ UNCHANGED <<worker, wcancel, widx, wsuccess, steps,
                                current_step>>
                 /\ IF made.raised = NoMessage
                    THEN \* create_session returned a fresh session id
                         /\ status' = [status EXCEPT ![e] = RUNNING]
                         /\ session_id' = [session_id EXCEPT ![e] = e]
                         /\ notifications' = Emit(e, StartedEvent)
                         /\ wpc' = "notify_started"
                         /\ UNCHANGED <<error_message, result_analyses,
                                        analysis_tasks>>
                    ELSE \* create_session raised: the except handler
                         /\ status' = [status EXCEPT ![e] = FAILED]
                         /\ error_message' =
                              [error_message EXCEPT ![e] = made.raised]
                         /\ result_analyses' =
                              [result_analyses EXCEPT ![e] = @ + 1]
                         /\ analysis_tasks' =
                              analysis_tasks \cup {ResultTask(e)}
                         /\ notifications' = Emit(e, ErrorEvent(made.raised))
                         /\ wpc' = "notify_error"
                         /\ UNCHANGED session_id
  /\ UNCHANGED <<is_running, active_executions, created, executed, stored,
                 cleanup_tasks, cancelVars, stopVars, screenshot_count,
                 screenshots, visionVars>>
  /\ UNCHANGED <<apiVars, wsVars, inputVars>>

\* notify_test_execution_started returned: first pass of the step loop.
WorkerAfterStarted ==
  /\ worker = "alive" /\ ~wcancel /\ wpc = "notify_started"
  /\ Iteration(wcur, 0)
  /\ UNCHANGED <<is_running, wcancel, execution_queue, active_executions,
                 created, status, session_id, steps, result_analyses,
                 cancelVars, stopVars, visionVars>>
  /\ UNCHANGED <<apiVars, wsVars, inputVars>>

\* asyncio.sleep of a Wait step returned: success, then notify progress.
WorkerWake ==
  /\ worker = "alive" /\ ~wcancel /\ wpc = "sleep"
  /\ wpc' = "notify_progress"
  /\ wsuccess' = TRUE
  /\ notifications' = Emit(wcur, ProgressEvent(current_step[wcur]))
  /\ UNCHANGED <<is_running, worker, wcancel, wcur, widx, execution_queue,
                 active_executions, created, ctxVars, sessions, executed,
                 stored, result_analyses, cleanup_tasks, cancelVars, stopVars,
                 shotVars, visionVars>>
  /\ UNCHANGED <<apiVars, wsVars, inputVars>>

\* notify_test_execution_progress returned.
WorkerAfterProgress ==
  /\ worker = "alive" /\ ~wcancel /\ wpc = "notify_progress"
  /\ LET e == wcur IN
       IF ~wsuccess
       THEN /\ status' = [status EXCEPT ![e] = FAILED]
            /\ notifications' =
                 Emit(e, ErrorEvent(IF error_message[e] # NoMessage
                                    THEN error_message[e]
                                    ELSE StepFailedNotice(current_step[e])))
            /\ wpc' = "notify_error"
            /\ UNCHANGED <<worker, wcur, widx, wsuccess, current_step,
                           error_message, executed, sessions, stored,
                           cleanup_tasks, result_analyses, shotVars>>
       ELSE IF widx + 1 < Len(steps[e])
       THEN /\ Iteration(e, widx + 1)
            /\ UNCHANGED <<status, result_analyses>>
       ELSE /\ status' = [status EXCEPT ![e] = COMPLETED]
            /\ result_analyses' = [result_analyses EXCEPT ![e] = @ + 1]
            /\ analysis_tasks' = analysis_tasks \cup {ResultTask(e)}
            /\ notifications' = Emit(e, CompletedEvent)
            /\ wpc' = "notify_completed"
            /\ UNCHANGED <<worker, wcur, widx, wsuccess, current_step,
                           error_message, executed, sessions, stored,
                           cleanup_tasks, screenshot_count, expired,
                           screenshots>>
  /\ UNCHANGED <<is_running, wcancel, execution_queue, active_executions,
                 created, session_id, steps, cancelVars, stopVars, visionVars>>
  /\ UNCHANGED <<apiVars, wsVars, inputVars>>

\* The terminal notification returned: finally block, back to the loop.
WorkerFinish ==
  /\ worker = "alive" /\ ~wcancel
  /\ wpc \in {"notify_error", "notify_completed"}
  /\ Finally(wcur)
  /\ BackToLoop
  /\ UNCHANGED <<is_running, wcancel, execution_queue, active_executions,
                 created, ctxVars, notifications, executed, result_analyses,
                 cancelVars, stopVars, screenshot_count, screenshots,
                 analysis_tasks, visionVars>>
  /\ UNCHANGED <<apiVars, wsVars, inputVars>>

\* Variant of CancelRejected without the `not in self.active_executions`
\* guard.
CancelRejectedStatusOnly(e) == status[e] \in TerminalStatus

\* cancel_execution up to its notify_test_execution_error call: the two
\* guards, then status, error_message, close_session and the notification.
CancelRejected(e) == e \notin active_executions \/ status[e] \in TerminalStatus

CancelEffect(e) ==
  /\ status' = [status EXCEPT ![e] = CANCELLED]
  /\ error_message' = [error_message EXCEPT ![e] = CancelMessage]
  /\ sessions' = IF session_id[e] # NoSession
                 THEN close_session(sessions, session_id[e])
                 ELSE sessions
  /\ expired' = expired \ {session_id[e]}
  /\ notifications' = Emit(e, ErrorEvent(CancelNotice))

\* cancel_execution(e) called by a request handler.  The call either runs to
\* its return, or parks in the notification send before `del`.
CancelExecution(e) ==
  /\ e \in 1..created
  /\ api_cancels < MaxCancels
  /\ api_cancels' = api_cancels + 1
  /\ IF CancelRejected(e)
     THEN /\ cancel_log' = [cancel_log EXCEPT ![e] = Append(@, "false")]
          /\ UNCHANGED <<status, error_message, sessions, expired,
                         notifications, active_executions, cancel_parked>>
     ELSE /\ CancelEffect(e)
          /\ \/ /\ active_executions' = active_executions \ {e}
                /\ cancel_log' = [cancel_log EXCEPT ![e] = Append(@, "true")]
                /\ UNCHANGED cancel_parked
             \/ /\ cancel_log' = [cancel_log EXCEPT ![e] = Append(@, "pending")]
                /\ cancel_parked' =
                     cancel_parked \cup {<<e, Len(cancel_log[e]) + 1>>}
                /\ UNCHANGED active_executions
  /\ UNCHANGED <<is_running, workerVars, execution_queue, created, session_id,
                 steps, current_step, executed, stored, result_analyses,
                 cleanup_tasks, stopVars, screenshot_count, screenshots,
                 analysis_tasks, visionVars>>
  /\ UNCHANGED <<apiVars, wsVars, inputVars>>

\* The notification of a parked cancel_execution returned:
\* `del self.active_executions[execution_id]` (KeyError if the key is gone),
\* then return True.
CancelResume(e, n) ==
  /\ <<e, n>> \in cancel_parked
  /\ cancel_parked' = cancel_parked \ {<<e, n>>}
  /\ UNCHANGED api_cancels
  /\ IF e \in active_executions
     THEN /\ active_executions' = active_executions \ {e}
          /\ cancel_log' = [cancel_log EXCEPT ![e][n] = "true"]
     ELSE /\ cancel_log' = [cancel_log EXCEPT ![e][n] = "raise"]
          /\ UNCHANGED active_executions
  /\ UNCHANGED <<is_running, workerVars, execution_queue, created, ctxVars,
                 sessions, notifications, executed, stored, result_analyses,
                 cleanup_tasks, stopVars, shotVars, visionVars>>
  /\ UNCHANGED <<apiVars, wsVars, inputVars>>

\* stop(): is_running = False, worker_task.cancel(), then await the task.
StopBegin ==
  /\ is_running
  /\ stop_pc = "idle"
  /\ stops < MaxStops
  /\ stops' = stops + 1
  /\ is_running' = FALSE
  /\ wcancel' = (worker = "alive")
  /\ stop_pc' = "await_worker"
  /\ UNCHANGED <<worker, wpc, wcur, widx, wsuccess, execution_queue,
                 active_executions, created, ctxVars, sessions, notifications,
                 executed, stored, result_analyses, cleanup_tasks, cancelVars,
                 stop_list, stop_call, shotVars, visionVars>>
  /\ UNCHANGED <<apiVars, wsVars, inputVars>>

\* CancelledError is thrown into the worker at the await it is parked at.
\* In queue.get and asyncio.sleep it propagates (it is not an Exception):
\* inside _execute_test the finally block runs, and the task ends.  In a
\* notify_* call the worker is inside send_to_user / broadcast, whose bare
\* `except:` around send_personal_message swallows it: the worker goes on.
WorkerCancelled ==
  /\ worker = "alive" /\ wcancel
  /\ wcancel' = FALSE
  /\ IF wpc = "idle"
     THEN /\ worker' = "done"
          /\ UNCHANGED <<wpc, wcur, widx, wsuccess, sessions, expired, stored,
                         cleanup_tasks>>
     ELSE IF wpc = "sleep"
     THEN /\ Finally(wcur)
          /\ worker' = "done"
          /\ wpc' = "idle"
          /\ wcur' = NoExec
          /\ widx' = 0
          /\ wsuccess' = TRUE
     ELSE UNCHANGED <<worker, wpc, wcur, widx, wsuccess, sessions, expired,
                      stored, cleanup_tasks>>
  /\ UNCHANGED <<is_running, execution_queue, active_executions, created,
                 ctxVars, notifications, executed, result_analyses,
                 cancelVars, stopVars, screenshot_count, screenshots,
                 analysis_tasks, visionVars>>
  /\ UNCHANGED <<apiVars, wsVars, inputVars>>

\* Variant of KeyList: stop() finds nothing to cancel.
KeyListNone(S) == <<>>

\* Ascending sequence of the elements of a set of ids (the dict keeps
\* insertion order, and ids are inserted in ascending order).
RECURSIVE KeyList(_)
KeyList(S) ==
  IF S = {} THEN <<>>
  ELSE LET m == CHOOSE x \in S : \A y \in S : x <= y
       IN  <<m>> \o KeyList(S \ {m})

\* stop(): the awaited worker task has ended; snapshot the keys to cancel.
StopSnapshot ==
  /\ stop_pc = "await_worker"
  /\ worker # "alive"
  /\ stop_pc' = "loop"
  /\ stop_list' = KeyList(active_executions)
  /\ UNCHANGED <<stops, stop_call>>
  /\ UNCHANGED <<is_running, workerVars, execution_queue, active_executions,
                 created, ctxVars, sessions, notifications, executed, stored,
                 result_analyses, cleanup_tasks, cancelVars, shotVars,
                 visionVars>>
  /\ UNCHANGED <<apiVars, wsVars, inputVars>>

\* stop(): `await self.cancel_execution(execution_id)` for the next key, up
\* to the call's return or to its park in the notification send; with no key
\* left stop() returns.
StopCancelNext ==
  /\ stop_pc = "loop"
  /\ IF stop_list = <<>>
     THEN /\ stop_pc' = "idle"
          /\ UNCHANGED <<stop_list, stop_call, status, error_message, sessions,
                         expired, notifications, active_executions, cancel_log>>
     ELSE LET e == Head(stop_list) IN
          IF CancelRejected(e)
          THEN /\ stop_list' = Tail(stop_list)
               /\ cancel_log' = [cancel_log EXCEPT ![e] = Append(@, "false")]
               /\ UNCHANGED <<stop_pc, stop_call, status, error_message,
                              sessions, expired, notifications,
                              active_executions>>
          ELSE /\ CancelEffect(e)
               /\ \/ /\ active_executions' = active_executions \ {e}
                     /\ cancel_log' =
                          [cancel_log EXCEPT ![e] = Append(@, "true")]
                     /\ stop_list' = Tail(stop_list)
                     /\ UNCHANGED <<stop_pc, stop_call>>
                  \/ /\ cancel_log' =
                          [cancel_log EXCEPT ![e] = Append(@, "pending")]
                     /\ stop_call' = Len(cancel_log[e]) + 1
                     /\ stop_pc' = "notify"
                     /\ UNCHANGED <<stop_list, active_executions>>
  /\ UNCHANGED <<is_running, workerVars, execution_queue, created, session_id,
                 steps, current_step, executed, stored, result_analyses,
                 cleanup_tasks, api_cancels, cancel_parked, stops,
                 screenshot_count, screenshots, analysis_tasks, visionVars>>
  /\ UNCHANGED <<apiVars, wsVars, inputVars>>

\* stop(): the parked cancel_execution resumes at its `del`; a KeyError
\* propagates out of stop().
StopCancelResume ==
  /\ stop_pc = "notify"
  /\ LET e == Head(stop_list) IN
       IF e \in active_executions
       THEN /\ active_executions' = active_executions \ {e}
            /\ cancel_log' = [cancel_log EXCEPT ![e][stop_call] = "true"]
            /\ stop_list' = Tail(stop_list)
            /\ stop_pc' = "loop"
       ELSE /\ cancel_log' = [cancel_log EXCEPT ![e][stop_call] = "raise"]
            /\ stop_list' = <<>>
            /\ stop_pc' = "idle"
            /\ UNCHANGED active_executions
  /\ stop_call' = 0
  /\ UNCHANGED <<is_running, workerVars, execution_queue, created, ctxVars,
                 sessions, notifications, executed, stored, result_analyses,
                 cleanup_tasks, api_cancels, cancel_parked, stops, shotVars,
                 visionVars>>
  /\ UNCHANGED <<apiVars, wsVars, inputVars>>

Next ==
  \/ Start
  \/ \E tc \in TestCases : QueueTestExecution(tc)
  \/ \E e \in ExecIds : CancelExecution(e)
  \/ \E c \in cancel_parked : CancelResume(c[1], c[2])
  \/ WorkerDequeue
  \/ WorkerAfterStarted
  \/ WorkerWake
  \/ WorkerAfterProgress
  \/ WorkerFinish
  \/ WorkerCancelled
  \/ StopBegin
  \/ StopSnapshot
  \/ StopCancelNext
  \/ StopCancelResume

Spec == Init /\ [][Next]_vars

\* The orchestrator with its worker loop kept running: start() is called and
\* stop() is not, the event loop schedules every task that is ready, and
\* every driver and notification call returns.
WorkerStep ==
  \/ WorkerDequeue
  \/ WorkerAfterStarted
  \/ WorkerWake
  \/ WorkerAfterProgress
  \/ WorkerFinish

ParkedCancelStep == \E c \in cancel_parked : CancelResume(c[1], c[2])

LiveNext ==
  \/ Start
  \/ \E tc \in TestCases : QueueTestExecution(tc)
  \/ \E e \in ExecIds : CancelExecution(e)
  \/ ParkedCancelStep
  \/ WorkerStep

LiveSpec ==
  /\ Init
  /\ [][LiveNext]_vars
  /\ WF_vars(Start)
  /\ WF_vars(WorkerStep)
  /\ WF_vars(ParkedCancelStep)

\* queue_test_execution called once, for a test case of TestCases.
QueueOne ==
  /\ created = 0
  /\ \E tc \in TestCases : QueueTestExecution(tc)

\* ------------------------------------------- request handlers of the pool
\* What close_session returns: True only for a present session whose
\* driver.quit() did not raise.
close_session_returns(table, sid, quit_ok) == sid \in table /\ quit_ok

\* POST /sessions: create_session; an exception becomes a 500 response.
ApiCreateSession ==
  /\ ext_created < MaxCreates
  /\ \E driver_ok \in BOOLEAN :
       LET made == create_session(sessions, expired,
                                  MaxExec + ext_created + 1, driver_ok)
       IN  /\ sessions' = made.sessions
           /\ expired' = made.expired
           /\ pool_result' = [op |-> "create", ok |-> made.raised = NoMessage,
                              message |-> made.raised]
  /\ ext_created' = ext_created + 1
  /\ UNCHANGED <<orchVars, screenshot_count, pool_calls, wsVars>>

\* DELETE /sessions/{session_id}: close_session for any id.
ApiCloseSession(sid) ==
  /\ \E quit_ok \in BOOLEAN :
       pool_result' = [op |-> "close",
                       ok |-> close_session_returns(sessions, sid, quit_ok),
                       message |-> NoMessage]
  /\ sessions' = close_session(sessions, sid)
  /\ expired' = expired \ {sid}
  /\ UNCHANGED <<orchVars, screenshot_count, ext_created, pool_calls, wsVars>>

\* GET /health: health_check reaps the expired sessions.
HealthCheck ==
  /\ sessions' = _cleanup_expired_sessions(sessions, expired)
  /\ expired' = {}
  /\ pool_result' = [op |-> "health", ok |-> TRUE, message |-> NoMessage]
  /\ UNCHANGED <<orchVars, screenshot_count, ext_created, pool_calls, wsVars>>

\* Time passes: a session's last_used becomes older than session_timeout.
\* last_used is wall-clock time (datetime.utcnow), so the model does not
\* order the sessions by it: any session in the table may be the next one
\* found expired.
Expire(sid) ==
  /\ sid \in sessions \ expired
  /\ expired' = expired \cup {sid}
  /\ UNCHANGED <<orchVars, sessions, screenshot_count, apiVars, wsVars>>

\* The pool under its request handlers, the clock, and one execution of the
\* orchestrator.
PoolNext ==
  \/ ApiCreateSession
  \/ \E sid \in SessionIds : ApiCloseSession(sid)
  \/ HealthCheck
  \/ \E sid \in SessionIds : Expire(sid)
  \/ Start
  \/ QueueOne
  \/ WorkerStep

PoolSpec == Init /\ [][PoolNext]_vars

\* POST /sessions/{session_id}/navigate: navigate_to_url for any id.
ApiNavigate(sid) ==
  /\ pool_calls < MaxPoolCalls
  /\ pool_calls' = pool_calls + 1
  /\ \E outcome \in NavOutcomes, saved \in BOOLEAN :
       LET result == navigate_to_url(sessions, screenshot_count, expired, sid,
                                     outcome, saved)
       IN  /\ screenshot_count' = result.counts
           /\ expired' = result.expired
           /\ pool_result' = [op |-> "navigate", ok |-> result.success,
                              message |-> result.message]
  /\ UNCHANGED <<orchVars, sessions, ext_created, wsVars>>

\* POST /sessions/{session_id}/interact: find_element_and_interact for any
\* id, selector type and action.
ApiInteract(sid) ==
  /\ pool_calls < MaxPoolCalls
  /\ pool_calls' = pool_calls + 1
  /\ \E outcome \in InteractOutcomes, saved \in BOOLEAN :
       LET result == find_element_and_interact(sessions, screenshot_count,
                                               expired, sid, outcome, saved)
       IN  /\ screenshot_count' = result.counts
           /\ expired' = result.expired
           /\ pool_result' = [op |-> "interact", ok |-> result.success,
                              message |-> result.message]
  /\ UNCHANGED <<orchVars, sessions, ext_created, wsVars>>

\* The pool driven by its request handlers alone.
DriverNext ==
  \/ ApiCreateSession
  \/ \E sid \in SessionIds : ApiCloseSession(sid)
  \/ \E sid \in SessionIds : ApiNavigate(sid)
  \/ \E sid \in SessionIds : ApiInteract(sid)

DriverSpec == Init /\ [][DriverNext]_vars

\* One execution with cancel_execution calls, and request handlers closing
\* any session id, the execution's own included.
CloseNext ==
  \/ Start
  \/ QueueOne
  \/ \E e \in ExecIds : CancelExecution(e)
  \/ ParkedCancelStep
  \/ WorkerStep
  \/ \E sid \in SessionIds : ApiCloseSession(sid)

CloseSpec == Init /\ [][CloseNext]_vars

\* ------------------------------------------------------- websocket manager
\* The three tables of the ConnectionManager as one record.
Tables == [ac |-> active_connections, md |-> connection_metadata,
           uc |-> user_connections]

\* Variant of disconnect: the client id stays in the set of its user.
disconnect_stale(T, c) ==
  IF T.ac[c] = NoSocket THEN T
  ELSE [ac |-> [T.ac EXCEPT ![c] = NoSocket],
        md |-> [T.md EXCEPT ![c] = Absent],
        uc |-> T.uc]

\* ConnectionManager.disconnect(client_id) on the tables T.  The user is
\* read from the metadata entry of the client id.
disconnect(T, c) ==
  IF T.ac[c] = NoSocket THEN T
  ELSE LET u == T.md[c] IN
       [ac |-> [T.ac EXCEPT ![c] = NoSocket],
        md |-> [T.md EXCEPT ![c] = Absent],
        uc |-> IF u \in UserIds
               THEN [T.uc EXCEPT ![u] = @ \ {c}]
               ELSE T.uc]

\* `for client_id in disconnected_clients: self.disconnect(client_id)`
RECURSIVE disconnect_all(_, _)
disconnect_all(T, S) ==
  IF S = {} THEN T
  ELSE LET c == CHOOSE x \in S : TRUE
       IN  disconnect_all(disconnect(T, c), S \ {c})

SetTables(T) ==
  /\ active_connections' = T.ac
  /\ connection_metadata' = T.md
  /\ user_connections' = T.uc

\* The orders in which a set or the keys of a dict can be iterated.
OrdersOf(S) ==
  {q \in [1..Cardinality(S) -> S] :
     \A i, j \in 1..Cardinality(S) : i # j => q[i] # q[j]}

\* Variant of ConnectRegister: the client id is first removed from the set
\* of the user it was registered under.
ConnectRegisterClean(T, c, w, u) ==
  LET D == disconnect(T, c) IN
  [ac |-> [D.ac EXCEPT ![c] = w],
   md |-> [D.md EXCEPT ![c] = u],
   uc |-> IF u \in UserIds THEN [D.uc EXCEPT ![u] = @ \cup {c}] ELSE D.uc]

\* ConnectionManager.connect after websocket.accept() returned: the three
\* table writes, whatever the tables hold for the client id.
ConnectRegister(T, c, w, u) ==
  [ac |-> [T.ac EXCEPT ![c] = w],
   md |-> [T.md EXCEPT ![c] = u],
   uc |-> IF u \in UserIds THEN [T.uc EXCEPT ![u] = @ \cup {c}] ELSE T.uc]

\* websocket_endpoint for a new websocket with the client id and user id
\* of the query string: manager.connect, then the message loop; when
\* accept() raised, the handler's finally block disconnects the client id.
Connect(c, u) ==
  /\ accepted < MaxConnects
  /\ accepted' = accepted + 1
  /\ LET w == accepted + 1 IN
       \E accept_ok \in BOOLEAN :
         IF accept_ok
         THEN /\ SetTables(ConnectRegister(Tables, c, w, u))
              /\ endpoints' = [endpoints EXCEPT ![w] = c]
              /\ registered' = [registered EXCEPT ![w] = u]
         ELSE /\ SetTables(disconnect(Tables, c))
              /\ UNCHANGED <<endpoints, registered>>
  /\ UNCHANGED <<orchVars, poolVars, apiVars, delivered, fan, sent>>

\* The peer of websocket w went away: receive_text raises
\* WebSocketDisconnect, the loop ends and the finally block calls
\* manager.disconnect with the handler's client id.
HandlerEnd(w) ==
  /\ endpoints[w] # NoClient
  /\ endpoints' = [endpoints EXCEPT ![w] = NoClient]
  /\ SetTables(disconnect(Tables, endpoints[w]))
  /\ UNCHANGED <<orchVars, poolVars, apiVars, registered, delivered, fan,
                 sent, accepted>>

\* The connections a loop over the client ids S starts with: the ids with
\* an entry in active_connections, each with its websocket.
Targeted(S) ==
  {<<c, active_connections[c]>> : c \in {x \in S : active_connections[x] # NoSocket}}

\* The client ids of a loop that have no entry in active_connections are
\* passed over by send_personal_message without any await.
RECURSIVE DropAbsent(_, _)
DropAbsent(todo, ac) ==
  IF todo = <<>> THEN <<>>
  ELSE IF ac[Head(todo)] = NoSocket THEN DropAbsent(Tail(todo), ac)
  ELSE todo

\* The loop of call f runs on the tables T up to its next await: send_text
\* is called on the websocket that the entry of the next client id holds
\* now; when no client id is left, the noted ids are disconnected and the
\* call returns.
Proceed(f, T) ==
  LET rest == DropAbsent(f.todo, T.ac) IN
  IF rest = <<>>
  THEN [fan |-> [f EXCEPT !.todo = <<>>, !.done = TRUE],
        tables |-> disconnect_all(T, f.failed)]
  ELSE [fan |-> [f EXCEPT !.todo = Tail(rest), !.client = Head(rest),
                           !.sending = T.ac[Head(rest)]],
        tables |-> T]

\* send_to_user(u, message) is called: nothing to do for a user without an
\* entry in user_connections, otherwise the loop over a copy of the set, up
\* to the first await.
SendToUserBegin(u) ==
  /\ fan.done
  /\ sent < MaxSends
  /\ sent' = sent + 1
  /\ \E order \in OrdersOf(user_connections[u]) :
       LET p == Proceed([NoFan EXCEPT !.kind = "user", !.user = u,
                                      !.msg = sent + 1, !.todo = order,
                                      !.done = FALSE,
                                      !.targets = Targeted(user_connections[u])],
                        Tables)
       IN  fan' = p.fan /\ SetTables(p.tables)
  /\ UNCHANGED <<orchVars, poolVars, apiVars, endpoints, registered,
                 delivered, accepted>>

\* broadcast(message) is called: the loop over list(active_connections),
\* up to the first await.
BroadcastBegin ==
  /\ fan.done
  /\ sent < MaxSends
  /\ sent' = sent + 1
  /\ LET keys == {c \in ClientIds : active_connections[c] # NoSocket} IN
       \E order \in OrdersOf(keys) :
         LET p == Proceed([NoFan EXCEPT !.kind = "broadcast",
                                        !.msg = sent + 1, !.todo = order,
                                        !.done = FALSE,
                                        !.targets = Targeted(keys)],
                          Tables)
         IN  fan' = p.fan /\ SetTables(p.tables)
  /\ UNCHANGED <<orchVars, poolVars, apiVars, endpoints, registered,
                 delivered, accepted>>

\* The awaited send_text ended: it returned (only a websocket whose peer is
\* still there can take the message), or raised an Exception
\* (send_personal_message disconnects the client id), or the caller's task
\* was cancelled in it (the bare except of the loop notes the client id).
\* The loop then runs on to its next await or to the end of the call.
FanSendReturn ==
  /\ ~fan.done
  /\ \E outcome \in {"ok", "fail", "cancelled"} :
       /\ outcome = "ok" => endpoints[fan.sending] # NoClient
       /\ delivered' = IF outcome = "ok"
                       THEN delivered \cup {<<fan.sending, fan.msg>>}
                       ELSE delivered
       /\ LET p == Proceed([fan EXCEPT !.client = NoClient,
                                       !.sending = NoSocket,
                                       !.errors = IF outcome = "fail"
                                                  THEN @ \cup {fan.client}
                                                  ELSE @,
                                       !.failed = IF outcome = "cancelled"
                                                  THEN @ \cup {fan.client}
                                                  ELSE @],
                           IF outcome = "fail"
                           THEN disconnect(Tables, fan.client) ELSE Tables)
          IN  fan' = p.fan /\ SetTables(p.tables)
  /\ UNCHANGED <<orchVars, poolVars, apiVars, endpoints, registered, sent,
                 accepted>>

WsNext ==
  \/ \E c \in ClientIds, u \in UserIds \cup {NoUser} : Connect(c, u)
  \/ \E w \in Sockets : HandlerEnd(w)
  \/ \E u \in UserIds : SendToUserBegin(u)
  \/ BroadcastBegin
  \/ FanSendReturn

WsSpec == Init /\ [][WsNext]_vars

\* ------------------------------------------------------------ input errors
\* queue_test_execution for a test case id that the query does not find:
\* scalar_one_or_none() is None, ValueError is raised, logged by the except
\* handler and raised again; the dict and the queue were not touched yet.
QueueMissing ==
  /\ input_calls < MaxInputCalls
  /\ input_calls' = input_calls + 1
  /\ last_call' = [op |-> "queue", id |-> 0, result |-> "raise"]
  /\ UNCHANGED <<is_running, workerVars, execution_queue, active_executions,
                 created, ctxVars, sessions, notifications, executed, stored,
                 result_analyses, cleanup_tasks, cancelVars, stopVars,
                 shotVars, visionVars>>
  /\ UNCHANGED <<apiVars, wsVars>>

\* cancel_execution for an id that queue_test_execution never returned: the
\* first guard of the call decides.
CancelUnknown(e) ==
  /\ e \notin 1..created
  /\ input_calls < MaxInputCalls
  /\ input_calls' = input_calls + 1
  /\ last_call' = [op |-> "cancel", id |-> e,
                   result |-> IF CancelRejected(e) THEN "false" ELSE "raise"]
  /\ UNCHANGED <<is_running, workerVars, execution_queue, active_executions,
                 created, ctxVars, sessions, notifications, executed, stored,
                 result_analyses, cleanup_tasks, cancelVars, stopVars,
                 shotVars, visionVars>>
  /\ UNCHANGED <<apiVars, wsVars>>

\* get_execution_status(e) called by a request handler.
StatusCall(e) ==
  /\ input_calls < MaxInputCalls
  /\ input_calls' = input_calls + 1
  /\ last_call' = [op |-> "status", id |-> e,
                   result |-> IF get_execution_status(e).known
                              THEN get_execution_status(e).status
                              ELSE "none"]
  /\ UNCHANGED <<is_running, workerVars, execution_queue, active_executions,
                 created, ctxVars, sessions, notifications, executed, stored,
                 result_analyses, cleanup_tasks, cancelVars, stopVars,
                 shotVars, visionVars>>
  /\ UNCHANGED <<apiVars, wsVars>>

\* The orchestrator with its worker running and request handlers that also
\* make calls with unknown ids.
InputNext ==
  \/ LiveNext
  \/ QueueMissing
  \/ \E e \in ExecIds : CancelUnknown(e)
  \/ \E e \in ExecIds : StatusCall(e)

InputSpec == Init /\ [][InputNext]_vars

\* ------------------------------------------------------- delayed cleanup
\* Variant of _cleanup_execution: the whole dict is cleared.
_cleanup_execution_all(active, e) == {}

\* _cleanup_execution after its sleep: the key is deleted when present.
_cleanup_execution(active, e) == active \ {e}

\* The sleep of the _cleanup_execution task of execution e is over.
Cleanup(e) ==
  /\ e \in cleanup_tasks
  /\ cleanup_tasks' = cleanup_tasks \ {e}
  /\ active_executions' = _cleanup_execution(active_executions, e)
  /\ UNCHANGED <<is_running, workerVars, execution_queue, created, ctxVars,
                 sessions, notifications, executed, stored, result_analyses,
                 cancelVars, stopVars, shotVars, visionVars>>
  /\ UNCHANGED <<apiVars, wsVars, inputVars>>

CleanupStep == \E e \in ExecIds : Cleanup(e)

\* The orchestrator kept running as in LiveSpec, with the cleanup tasks:
\* every sleep of a cleanup task ends.
CleanupNext ==
  \/ LiveNext
  \/ CleanupStep

CleanupSpec ==
  /\ Init
  /\ [][CleanupNext]_vars
  /\ WF_vars(Start)
  /\ WF_vars(WorkerStep)
  /\ WF_vars(ParkedCancelStep)
  /\ WF_vars(CleanupStep)

\* ---------------------------------------------------------- vision analysis
\* Variant of ErrorAfterAnalysis: a failed analysis is recorded on the
\* context.
ErrorAfterAnalysisRecorded(e, outcome) ==
  IF outcome = "success" THEN error_message
  ELSE [error_message EXCEPT ![e] = "AI analysis failed"]

\* context.error_message after an analysis call returned: a failure or an
\* exception of the vision service is logged and nothing else.
ErrorAfterAnalysis(e, outcome) == error_message

\* A spawned analysis task runs up to its call of the vision service: it
\* ends at once when the service is not enabled; the result analysis reads
\* the context's status into the data it sends.
AnalysisStart(t) ==
  /\ t \in analysis_tasks /\ t.pc = "start"
  /\ \E enabled \in BOOLEAN :
       analysis_tasks' =
         IF ~enabled THEN analysis_tasks \ {t}
         ELSE (analysis_tasks \ {t})
                \cup {[t EXCEPT !.pc = "await",
                                !.snapshot = IF t.kind = "result"
                                             THEN status[t.e] ELSE NoAnalysis]}
  /\ UNCHANGED <<is_running, workerVars, execution_queue, active_executions,
                 created, ctxVars, sessions, notifications, executed, stored,
                 result_analyses, cleanup_tasks, cancelVars, stopVars,
                 screenshot_count, expired, screenshots, visionVars>>
  /\ UNCHANGED <<apiVars, wsVars, inputVars>>

\* The vision service's call returned (success, a failure result, or an
\* exception): on success the screenshot analysis is appended to
\* context.ai_analyses, the result analysis stored as final_ai_analysis.
AnalysisReturn(t) ==
  /\ t \in analysis_tasks /\ t.pc = "await"
  /\ analysis_tasks' = analysis_tasks \ {t}
  /\ \E outcome \in {"success", "failure", "raise"} :
       /\ error_message' = ErrorAfterAnalysis(t.e, outcome)
       /\ ai_analyses' =
            IF outcome = "success" /\ t.kind = "screenshot"
            THEN [ai_analyses EXCEPT ![t.e] = Append(@, t.path)]
            ELSE ai_analyses
       /\ final_ai_analysis' =
            IF outcome = "success" /\ t.kind = "result"
            THEN [final_ai_analysis EXCEPT ![t.e] = t.snapshot]
            ELSE final_ai_analysis
  /\ UNCHANGED <<is_running, workerVars, execution_queue, active_executions,
                 created, status, session_id, steps, current_step, sessions,
                 notifications, executed, stored, result_analyses,
                 cleanup_tasks, cancelVars, stopVars, screenshot_count,
                 expired, screenshots>>
  /\ UNCHANGED <<apiVars, wsVars, inputVars>>

\* One execution of a test case of TestCases with its analysis tasks.
VisionNext ==
  \/ Start
  \/ QueueOne
  \/ \E e \in ExecIds : CancelExecution(e)
  \/ ParkedCancelStep
  \/ WorkerStep
  \/ \E t \in analysis_tasks : AnalysisStart(t)
  \/ \E t \in analysis_tasks : AnalysisReturn(t)

VisionSpec == Init /\ [][VisionNext]_vars

\* One execution of any stored test case of StoredCases, with the worker
\* running and cancel_execution calls interleaved.
StepQueue ==
  /\ created = 0
  /\ \E tc \in StoredCases : QueueTestExecution(tc)

StepNext ==
  \/ Start
  \/ StepQueue
  \/ \E e \in ExecIds : CancelExecution(e)
  \/ ParkedCancelStep
  \/ WorkerStep

StepSpec == Init /\ [][StepNext]_vars

\* ------------------------------------------------------------------ claims
Created == 1..created
InQueue(e) == \E i \in 1..Len(execution_queue) : execution_queue[i] = e
\* _execute_test has been called for e (every exit runs the finally block)
Entered(e) == wcur = e \/ stored[e] > 0
\* the worker has left _execute_test for e
Finished(e) == stored[e] > 0
HasTrue(log) == \E i \in 1..Len(log) : log[i] = "true"

TerminalEvents == {"test_execution_completed", "test_execution_error"}
TerminalCount(e) ==
  Cardinality({i \in 1..Len(notifications[e]) :
                 notifications[e][i].type \in TerminalEvents})

\* C1: once an execution's status is Completed, Failed or Cancelled, no step
\* of the worker, of cancel_execution or of stop() changes it.
C1_TerminalIsFinal ==
  [][\A e \in ExecIds :
       status[e] \in TerminalStatus => status'[e] = status[e]]_vars

\* C2: an execution whose status is terminal has had exactly one terminal
\* notification (completed or error) emitted for it.
C2_ExactlyOneTerminalNotification ==
  \A e \in ExecIds : status[e] \in TerminalStatus => TerminalCount(e) = 1

\* C6: in the notifications of one execution, no started or progress event
\* comes after the terminal (completed / error) event.
C6_NothingAfterTerminalNotification ==
  \A e \in ExecIds :
    \A i, j \in 1..Len(notifications[e]) :
      (i < j /\ notifications[e][i].type \in TerminalEvents)
        => notifications[e][j].type \in TerminalEvents

\* C3: with the worker loop running (LiveSpec), for every execution id that
\* queue_test_execution returned, get_execution_status eventually reports
\* completed, failed or cancelled.
C3_EventuallyTerminalReported ==
  \A e \in ExecIds :
    (e \in Created) ~> (get_execution_status(e).status \in TerminalStatus)

\* C4: once the worker has left _execute_test for an execution, by return or
\* by the CancelledError of stop(), the session that execution acquired is
\* not in the pool's session table.
C4_SessionReleased ==
  \A e \in ExecIds :
    (Finished(e) /\ session_id[e] # NoSession) => session_id[e] \notin sessions

\* C4 witness: stop() ended the worker inside a step of an execution that
\* held a session.
C4_Witness ==
  \E e \in ExecIds :
    Finished(e) /\ session_id[e] # NoSession /\ status[e] = RUNNING

\* C5: among the executions the orchestrator still holds (keys of
\* active_executions and the one the worker is in) at most one has status
\* Running, and at most one has a step in flight.
Held == active_executions \cup ({wcur} \cap ExecIds)
StepInFlight(e) == wcur = e /\ wpc = "sleep"
C5_AtMostOneRunning ==
  /\ Cardinality({e \in Held : status[e] = RUNNING}) <= 1
  /\ Cardinality({e \in ExecIds : StepInFlight(e)}) <= 1

\* C5 witness: after stop() ended the worker inside one execution and
\* start() was called again, the new worker runs another execution.
C5_Witness ==
  /\ stops > 0 /\ is_running
  /\ \E e \in ExecIds :
       /\ wcur = e /\ status[e] = RUNNING
       /\ \E d \in ExecIds \ {e} : Finished(d) /\ executed[d] # <<>>

\* C7: (a) a cancel_execution call made after a call for the same id has
\* returned true returns false; (b) the first call for an id that is known
\* and Queued or Running is not rejected; (c) if no other call for the id
\* is made while it is parked, it returns true.
C7_CancelTrueThenFalse ==
  [][\A e \in ExecIds :
       LET old == cancel_log[e]
           new == cancel_log'[e]
       IN  /\ (HasTrue(old) /\ Len(new) > Len(old))
                => new[Len(new)] = "false"
           /\ (old = <<>> /\ new # <<>> /\ e \in active_executions
                 /\ status[e] \in {QUEUED, RUNNING})
                => new[1] \in {"true", "pending"}
           /\ (Len(old) = 1 /\ Len(new) = 1 /\ old[1] = "pending"
                 /\ new[1] # "pending")
                => new[1] = "true"]_vars

\* C7 witness: two calls for one id, the first returned true, the second
\* false.
C7_Witness == \E e \in ExecIds : cancel_log[e] = <<"true", "false">>

\* C8: when cancel_execution has returned true for an execution whose queue
\* entry the worker has not taken yet, the worker does not enter
\* _execute_test for it, and the execution stays Cancelled with
\* current_step 0, no session, no step executed and its only notification
\* the error event of the cancel.
C8_CancelledWhileQueued ==
  [][\A e \in ExecIds :
       /\ (HasTrue(cancel_log[e]) /\ InQueue(e)) => ~Entered(e)'
       /\ (HasTrue(cancel_log[e]) /\ ~Entered(e) /\ ~Entered(e)')
            => /\ status'[e] = CANCELLED
               /\ current_step'[e] = 0
               /\ session_id'[e] = NoSession
               /\ executed'[e] = <<>>
               /\ notifications'[e] = <<ErrorEvent(CancelNotice)>>]_vars

\* C8 witness: the worker has taken and discarded the queue entry of an
\* execution cancelled while Queued.
C8_Witness ==
  \E e \in Created :
    /\ HasTrue(cancel_log[e]) /\ ~InQueue(e) /\ ~Entered(e)
    /\ status[e] = CANCELLED /\ worker = "alive"

\* Expected notifications of an execution whose steps 1..k were executed.
ProgressUpTo(k) == [i \in 1..k |-> ProgressEvent(i)]
Ascending(k) == [i \in 1..k |-> i]

\* C9: when no cancel_execution call was made for an execution and it is
\* Failed while holding a session (a step reported failure), then with
\* k = current_step: error_message is the pool's message for step k, exactly
\* the steps 1..k were executed once each, and the notifications are
\* started, progress 1..k, one error.
C9_StepFailure ==
  \A e \in ExecIds :
    (cancel_log[e] = <<>> /\ status[e] = FAILED /\ session_id[e] # NoSession)
      => LET k == current_step[e] IN
         /\ k \in 1..Len(steps[e])
         /\ steps[e][k].step_type \notin {WAIT, SCREENSHOT}
         /\ \E outcome \in StepOutcomes(steps[e][k].step_type) \ {"ok"} :
              error_message[e] = PoolMessage(outcome)
         /\ executed[e] = Ascending(k)
         /\ notifications[e] =
              <<StartedEvent>> \o ProgressUpTo(k)
                \o <<ErrorEvent(error_message[e])>>

\* C9 witness: an execution failed at a step that is not its last, and the
\* worker is done with it.
C9_Witness ==
  \E e \in ExecIds :
    /\ cancel_log[e] = <<>> /\ status[e] = FAILED /\ Finished(e)
    /\ session_id[e] # NoSession /\ current_step[e] < Len(steps[e])

\* C10: an execution for which no cancel_execution call was made and that is
\* Completed, or that the worker left by return with no error recorded, is
\* Completed with current_step = len(steps), error_message unset, and its
\* notifications are started, one progress per step in order, one completed.
C10_AllStepsSucceed ==
  \A e \in ExecIds :
    (/\ cancel_log[e] = <<>>
     /\ \/ status[e] = COMPLETED
        \/ Finished(e) /\ error_message[e] = NoMessage /\ status[e] # RUNNING)
      => /\ status[e] = COMPLETED
         /\ current_step[e] = Len(steps[e])
         /\ error_message[e] = NoMessage
         /\ executed[e] = Ascending(Len(steps[e]))
         /\ notifications[e] =
              <<StartedEvent>> \o ProgressUpTo(Len(steps[e]))
                \o <<CompletedEvent>>

\* C10 witness: a two-step execution completed and the worker is done with
\* it.
C10_Witness ==
  \E e \in ExecIds :
    /\ cancel_log[e] = <<>> /\ status[e] = COMPLETED /\ Finished(e)
    /\ Len(steps[e]) = 2 /\ session_id[e] \notin sessions

\* C11: for every execution, 0 <= current_step <= len(steps) in every
\* reachable state, and no step of the worker, of cancel_execution or of
\* stop() decreases current_step.
C11_CurrentStepMonotone ==
  /\ [](\A e \in ExecIds : current_step[e] \in 0..Len(steps[e]))
  /\ [][\A e \in ExecIds : current_step'[e] >= current_step[e]]_vars

\* C11 witness: a cancel_execution call landed while the worker was inside a
\* step; the worker then advanced current_step to the last step, saw the
\* cancellation there and left without starting that step.
C11_Witness ==
  \E e \in ExecIds :
    /\ cancel_log[e] # <<>> /\ Finished(e)
    /\ current_step[e] = Len(steps[e])
    /\ Len(executed[e]) = current_step[e] - 1 /\ executed[e] # <<>>

\* C12: within one execution the steps handed to _execute_step are the
\* entries of context.steps in list order, each entry once; their
\* step_numbers never decrease and strictly ascend when the stored
\* order_index values are distinct; and a step is started only when no step
\* of the execution is in flight, as the entry that follows the last one
\* started.
StepNumbers(e, n) == [i \in 1..n |-> steps[e][i].step_number]
DistinctNumbers(e) ==
  \A i, j \in 1..Len(steps[e]) :
    i # j => steps[e][i].step_number # steps[e][j].step_number
C12_StepsInOrder ==
  /\ [](\A e \in ExecIds :
          LET n == Len(executed[e]) IN
          /\ n <= Len(steps[e])
          /\ executed[e] = StepNumbers(e, n)
          /\ \A i, j \in 1..n :
               i < j => /\ executed[e][i] <= executed[e][j]
                        /\ DistinctNumbers(e) => executed[e][i] < executed[e][j])
  /\ [][\A e \in ExecIds :
          executed'[e] # executed[e]
            => /\ ~StepInFlight(e)
               /\ wcur' = e
               /\ Len(executed[e]) < Len(steps[e])
               /\ executed'[e] =
                    Append(executed[e],
                           steps[e][Len(executed[e]) + 1].step_number)]_vars

\* C12 witness: the worker has started both steps of a test case whose
\* second step is a wait it is now sleeping in.
C12_Witness ==
  \E e \in ExecIds :
    /\ Len(executed[e]) = 2 /\ StepInFlight(e)
    /\ steps[e][1].step_number < steps[e][2].step_number

\* C13: a step of a vision-analysis task (one that ends or advances a task,
\* or changes ai_analyses or final_ai_analysis) leaves every execution's
\* status, current_step, error_message and screenshots, and the worker,
\* unchanged; it only appends one of the execution's screenshots to
\* ai_analyses or sets final_ai_analysis; and the worker, parked at any of
\* its awaits, can go on whatever analysis tasks are pending.
AnalysisActs ==
  \/ \E t \in analysis_tasks : t \notin analysis_tasks'
  \/ visionVars' # visionVars
InScreenshots(e, p) == \E i \in 1..Len(screenshots[e]) : screenshots[e][i] = p
C13_AnalysisFrame ==
  /\ [][AnalysisActs =>
          /\ UNCHANGED <<status, current_step, error_message, screenshots>>
          /\ UNCHANGED <<workerVars, sessions, notifications, executed>>
          /\ \A e \in ExecIds :
               \/ ai_analyses'[e] = ai_analyses[e]
               \/ \E p \in {q \in SessionIds \X (1..MaxSteps) :
                             InScreenshots(e, q)} :
                    ai_analyses'[e] = Append(ai_analyses[e], p)]_vars
  /\ []((worker = "alive" /\ ~wcancel /\ wpc # "idle") => ENABLED WorkerStep)

\* C13 witness: the worker has left a Completed execution while one of its
\* analysis tasks is still waiting for the vision service, and another
\* analysis has been appended.
C13_Witness ==
  \E e \in ExecIds :
    /\ Finished(e) /\ status[e] = COMPLETED /\ ai_analyses[e] # <<>>
    /\ \E t \in analysis_tasks : t.e = e /\ t.pc = "await"

\* C14: the session table never holds more than max_sessions sessions; and
\* a create_session call (of a request handler or of the worker) made at
\* capacity first removes the expired sessions, raises the capacity error
\* exactly when the table is still full after that, and adds nothing when it
\* raises; a call that does not raise adds exactly the new session.
CreateCalled ==
  \/ ext_created' # ext_created
  \/ wcur = NoExec /\ wcur' # NoExec
CreateRaised ==
  IF ext_created' # ext_created THEN pool_result'.message
  ELSE IF status'[wcur'] = FAILED THEN error_message'[wcur'] ELSE NoMessage
C14_PoolCapacity ==
  /\ [](Cardinality(sessions) <= max_sessions /\ expired \subseteq sessions)
  /\ [][CreateCalled =>
          LET full == Cardinality(sessions) >= max_sessions
              reaped == IF full THEN sessions \ expired ELSE sessions
          IN  /\ (CreateRaised = MaxReached)
                   <=> (full /\ Cardinality(reaped) >= max_sessions)
              /\ CreateRaised # NoMessage => sessions' = reaped
              /\ CreateRaised = NoMessage
                   => /\ reaped \subseteq sessions'
                      /\ Cardinality(sessions') = Cardinality(reaped) + 1]_vars

\* C14 witness: the worker's create_session call found the table full with
\* nothing expired; it raised, the execution failed and the table is as full
\* as before.
C14_Witness ==
  \E e \in ExecIds :
    /\ status[e] = FAILED /\ error_message[e] = MaxReached
    /\ Cardinality(sessions) = max_sessions

\* C15: for every session table the program reaches and every id:
\* close_session of an absent id returns false and leaves the table as it
\* is; after close_session of any id (driver.quit() failing or not) the id
\* is absent and the other sessions are untouched, and a second
\* close_session of it returns false and changes nothing.  The worker's
\* finally block, which closes the execution's session again after
\* cancel_execution or a request handler closed it, removes nothing else
\* and the worker goes back to its loop.
C15_CloseIdempotent ==
  /\ [](\A sid \in SessionIds : \A quit_ok \in BOOLEAN :
          LET after == close_session(sessions, sid) IN
          /\ sid \notin sessions
               => /\ after = sessions
                  /\ ~close_session_returns(sessions, sid, quit_ok)
          /\ after = sessions \ {sid}
          /\ ~close_session_returns(after, sid, quit_ok)
          /\ close_session(after, sid) = after)
  /\ [][\A e \in ExecIds :
          stored'[e] > stored[e]
            => /\ sessions' = sessions \ {session_id[e]}
               /\ wcur' = NoExec /\ worker' = "alive"]_vars

\* C15 witness: cancel_execution closed the session of a running execution,
\* the worker's finally block closed it again, and a request handler's
\* third close_session returned false.
C15_Witness ==
  \E e \in ExecIds :
    /\ Finished(e) /\ status[e] = CANCELLED /\ session_id[e] # NoSession
    /\ pool_result.op = "close" /\ ~pool_result.ok /\ sessions = {}

\* C16: whenever navigate_to_url or find_element_and_interact returns a
\* failure for a driver-level timeout or a not-interactable element, the
\* pool has called its screenshot routine on that session: the
\* screenshot_count of a session in the table went up by one.
C16_ScreenshotOnFailure ==
  [][(/\ pool_calls' = pool_calls + 1
      /\ ~pool_result'.ok
      /\ pool_result'.message \in {PoolMessage("timeout"),
                                   PoolMessage("not_interactable")})
       => \E sid \in sessions :
            screenshot_count'[sid] = screenshot_count[sid] + 1]_vars

\* C17: a failing send inside send_to_user or broadcast never raises to the
\* caller (the tables stay consistent, so disconnect cannot raise, and the
\* loop always goes on to its end), the client id whose send failed is
\* removed from active_connections, connection_metadata and the connection
\* set of its user (at once for an Exception, at the end of the call for a
\* swallowed cancellation), and every other targeted connection that is
\* still registered when the call returns has received the message.
KeyConsistent ==
  \A c \in ClientIds :
    (active_connections[c] = NoSocket) <=> (connection_metadata[c] = Absent)

Removed(c, u) ==
  /\ active_connections'[c] = NoSocket
  /\ connection_metadata'[c] = Absent
  /\ u \in UserIds => c \notin user_connections'[u]

FanReturns == ~fan.done /\ fan'.done

C17_SendFailureSwallowed ==
  /\ [](KeyConsistent /\ (~fan.done => ENABLED FanSendReturn))
  /\ [][/\ \A c \in ClientIds :
            c \in fan'.errors \ fan.errors
              => Removed(c, connection_metadata[c])
        /\ FanReturns =>
             /\ \A c \in fan'.failed : Removed(c, connection_metadata[c])
             /\ \A t \in fan.targets :
                  (/\ t[1] \notin fan'.errors \cup fan'.failed
                   /\ active_connections'[t[1]] = t[2])
                    => <<t[2], fan.msg>> \in delivered']_vars

\* A fan-out with two targets has returned: one send raised, the other
\* connection received the message.
C17_Witness ==
  /\ fan.kind # "none" /\ fan.done
  /\ Cardinality(fan.targets) = 2
  /\ fan.errors \cup fan.failed # {}
  /\ \E t \in fan.targets :
       t[1] \notin fan.errors \cup fan.failed /\ <<t[2], fan.msg>> \in delivered

\* C18: send_to_user(u, m) delivers m to exactly the connections
\* registered under user u: a call that starts targets every client id
\* that has a websocket and user u in the tables, and a message of the
\* call is only ever delivered to a websocket that connected with user u
\* -- whatever connects (reuse of a client id with another user id
\* included) and disconnects came before.
C18_SendToUserExact ==
  [][/\ \A w \in Sockets :
          (fan.kind = "user" /\ <<w, fan.msg>> \in delivered' \ delivered)
            => registered[w] = fan.user
     /\ (sent' = sent + 1 /\ fan'.kind = "user")
          => \A c \in ClientIds :
               (/\ active_connections[c] # NoSocket
                /\ connection_metadata[c] = fan'.user)
                 => \E t \in fan'.targets : t[1] = c]_vars

\* C19: an execution whose status is terminal is reported by
\* get_execution_status, with that status, as long as the sleep of its
\* cleanup task (the 300 second grace period) has not ended.
GraceElapsed(e) == stored[e] > 0 /\ e \notin cleanup_tasks

C19_VisibleThroughGrace ==
  \A e \in ExecIds :
    (status[e] \in TerminalStatus /\ ~GraceElapsed(e))
      => /\ get_execution_status(e).known
         /\ get_execution_status(e).status = status[e]

\* C20: a context with a terminal status is eventually removed from
\* active_executions; an id that was removed is never a key again, so
\* get_execution_status returns None for it from then on; and the step of a
\* cleanup task removes no key but its own.
C20_EventuallyPurged ==
  /\ \A e \in ExecIds :
       (e \in active_executions /\ status[e] \in TerminalStatus)
         ~> (e \notin active_executions)
  /\ [][\A e \in ExecIds :
          /\ (e <= created /\ e \notin active_executions)
               => ~get_execution_status(e).known'
          /\ (e \in cleanup_tasks /\ e \notin cleanup_tasks')
               => active_executions \ {e} \subseteq active_executions']_vars

\* The cleanup task of a finished execution has run and removed its
\* context while the context of the other execution is still there.
C20_Witness ==
  \E e \in ExecIds :
    /\ status[e] \in TerminalStatus
    /\ GraceElapsed(e)
    /\ e \notin active_executions
    /\ cancel_log[e] = <<>>
    /\ active_executions # {}

\* C21: _store_execution_results is called exactly once for every execution
\* that reaches a terminal status: never more than once, and with the
\* worker loop running every execution whose status is Completed, Failed or
\* Cancelled (while running or while still queued) eventually has its one
\* call.
C21_StoredOncePerTerminal ==
  /\ [](\A e \in ExecIds : stored[e] <= 1)
  /\ \A e \in ExecIds : (status[e] \in TerminalStatus) ~> (stored[e] = 1)

\* C22: for every execution the worker has run to a terminal status --
\* Completed, Failed after a step reported failure, Failed after an
\* exception, or Cancelled -- exactly one _analyze_execution_result_with_ai
\* task has been spawned.
C22_OneResultAnalysis ==
  \A e \in ExecIds :
    (Finished(e) /\ status[e] \in TerminalStatus) => result_analyses[e] = 1

\* C23: an execution for which no cancel_execution call was made and whose
\* create_session raised (pool at capacity, or the driver could not be
\* created) is Failed with error_message equal to the raised message,
\* current_step 0, no step executed, no started notification and exactly
\* one error notification carrying that message; the step that records the
\* failure takes the status from Queued (Running is set and replaced before
\* the first await, inside that step); and when the worker leaves such an
\* execution while the orchestrator runs, it is back in its loop, alive and
\* idle, able to take the next id of the queue.
FailedOnCreate(e) ==
  cancel_log[e] = <<>> /\ status[e] = FAILED /\ session_id[e] = NoSession

SharedUnchanged ==
  UNCHANGED <<active_executions, execution_queue, sessions, notifications>>

C24_InputErrorsNoEffect ==
  [][/\ (input_calls' # input_calls /\ last_call'.op = "queue")
          => last_call'.result = "raise" /\ SharedUnchanged
     /\ \A e \in ExecIds :
          /\ (input_calls' # input_calls /\ last_call'.op = "cancel"
                /\ last_call'.id = e)
               => last_call'.result = "false" /\ SharedUnchanged
          /\ (api_cancels' # api_cancels /\ cancel_log'[e] # cancel_log[e]
                /\ (e \notin active_executions \/ status[e] \in TerminalStatus))
               => /\ cancel_log'[e] = Append(cancel_log[e], "false")
                  /\ SharedUnchanged
          /\ (input_calls' # input_calls /\ last_call'.op = "status"
                /\ last_call'.id = e /\ e \notin active_executions)
               => last_call'.result = "none" /\ SharedUnchanged]_vars

\* All three kinds of call have been made on a busy orchestrator: an
\* execution is finished and still held, a cancel_execution on a terminal
\* execution returned false, and the last call was a status query for an id
\* that is not held.
C24_Witness ==
  /\ input_calls = MaxInputCalls
  /\ last_call.op = "status" /\ last_call.result = "none"
  /\ \E e \in ExecIds :
       /\ e \in active_executions /\ status[e] \in {COMPLETED, FAILED}
       /\ cancel_log[e] = <<"false">>

\* C25: the plan derived for a test case without steps is Navigate (step 1)
\* then Screenshot (step 2), so every execution that was queued has at
\* least one step; and with the worker loop running, an execution with that
\* plan gets a terminal status and the worker task never ends with an
\* exception.
DefaultPlan == <<TestStep(1, NAVIGATE), TestStep(2, SCREENSHOT)>>

C25_DefaultPlan ==
  /\ [](/\ _parse_test_steps(<<>>) = DefaultPlan
        /\ \A e \in Created : Len(steps[e]) >= 1
        /\ worker # "done")
  /\ \A e \in ExecIds :
       (e \in Created /\ steps[e] = DefaultPlan)
         ~> (status[e] \in TerminalStatus)

\* An execution with the default plan ran both steps and completed.
C25_Witness ==
  \E e \in ExecIds :
    /\ steps[e] = DefaultPlan /\ status[e] = COMPLETED /\ Finished(e)
    /\ executed[e] = <<1, 2>> /\ cancel_log[e] = <<>>

\* C26: once cancel_execution has set Cancelled on the execution the worker
\* is inside (the execution was Running), the number of steps handed to
\* _execute_step never grows again -- the step in flight may end, no other
\* step is started -- and when the worker leaves that execution while the
\* orchestrator runs, it is back in its loop, alive and idle, ready for the
\* next id of the queue.
CancelledWhileRunning(e) == status[e] = CANCELLED /\ wcur = e

C26_NoStepAfterCancel ==
  /\ \A e \in ExecIds : \A n \in 0..(MaxSteps + 2) :
       [](CancelledWhileRunning(e) /\ Len(executed[e]) = n
            => [](Len(executed[e]) = n))
  /\ [][\A e \in ExecIds :
          (CancelledWhileRunning(e) /\ stored'[e] = stored[e] + 1
             /\ is_running)
            => /\ worker' = "alive" /\ wpc' = "idle" /\ wcur' = NoExec
               /\ ~wcancel' /\ is_running']_vars

\* cancel_execution returned true while the first step of a two-step
\* execution was in flight; the worker has left the execution, the second
\* step was never started, and the worker is inside the next execution.
C26_Witness ==
  \E e, f \in ExecIds :
    /\ cancel_log[e] = <<"true">> /\ Finished(e)
    /\ Len(steps[e]) = 2 /\ executed[e] = <<steps[e][1].step_number>>
    /\ error_message[e] = CancelMessage
    /\ e # f /\ wcur = f /\ status[f] = RUNNING

\* C27: the reaper never closes the session of a Running execution: when
\* the session bound to the execution the worker is inside leaves the
\* session table, the step is the worker's own finally block or a
\* close_session request for that id, never health_check or the reaping of
\* create_session at capacity.
BoundSession(e) ==
  status[e] = RUNNING /\ wcur = e /\ session_id[e] \in sessions

C27_ReaperSparesBound ==
  [][\A e \in ExecIds :
       (BoundSession(e) /\ session_id[e] \notin sessions')
         => \/ stored'[e] = stored[e] + 1
            \/ pool_result'.op = "close"]_vars

\* ---------------------------------------------------------------------------
\* C28: executions run in the order they were queued.  Execution ids are
\* issued in queue order, so a < b means a was queued first.  (1) The queue
\* always holds its ids in ascending order and an execution the worker has
\* entered is behind no earlier one still waiting in the queue.  (2) When a
\* single worker task has entered both a and b, a < b, a has a terminal
\* status.  (3) The queue only changes by a put at its tail or by the worker
\* taking its head; taking the head of an execution that is no longer active
\* starts nothing and leaves the others in their order.
\* ---------------------------------------------------------------------------
QueueAscending ==
  \A i, j \in 1..Len(execution_queue) :
    i < j => execution_queue[i] < execution_queue[j]

C29_CursorWithinStarted ==
  \A e \in ExecIds : current_step[e] <= Len(executed[e])

\* ---------------------------------------------------------------------------
\* C30: the tables of the notification channel stay consistent after any
\* sequence of connects, disconnects and failed sends, client id reuse
\* included.  (1) active_connections and connection_metadata have the same
\* keys.  (2) Every client id in the set of a user is a key of
\* active_connections and its metadata names that user.  (3) The entry of a
\* connection is removed only in a step in which the handler of that very
\* websocket ends or a send on it fails.  (A user without client ids has no
\* key in user_connections: the model writes the absent key as the empty
\* set.)
\* ---------------------------------------------------------------------------
UserSetsConsistent ==
  \A u \in UserIds : \A c \in user_connections[u] :
    active_connections[c] # NoSocket /\ connection_metadata[c] = u

OwnRemoval(c) ==
  LET w == active_connections[c] IN
  \/ endpoints[w] = c /\ endpoints'[w] = NoClient
  \/ ~fan.done /\ fan.sending = w
  \/ c \in fan.failed /\ FanReturns

RemovedOnlyByOwner ==
  \A c \in ClientIds :
    (active_connections[c] # NoSocket /\ active_connections'[c] = NoSocket)
      => OwnRemoval(c)

C30_TablesConsistent ==
  /\ [](KeyConsistent /\ UserSetsConsistent)
  /\ [][RemovedOnlyByOwner]_vars

====
